---- MODULE Spec2Model ----
(***************************************************************************)
(* PromptWizard glue layer, package promptwizard.glue.common.llm:          *)
(*   debug_utils.py   the module-wide debug flag and debug_log             *)
(*   llm_settings.py  the environment-based configuration resolvers        *)
(*   llm_mgr.py       the message normalizer, the three provider callers,  *)
(*                    the dispatcher and the model pool builder            *)
(*                                                                         *)
(* Strings that the code lower-cases or parses are sequences of            *)
(* one-character strings; strings that are only compared or passed on are  *)
(* TLA+ strings.  Floating point values are integers in thousandths.       *)
(***************************************************************************)
EXTENDS Integers, Sequences, FiniteSets, TLC

VARIABLES
    environ,      \* os.environ: a function from the names that are set to their values
    DEBUG_MODE,   \* debug_utils.DEBUG_MODE, computed when the module is loaded
    loaded_debug, \* history: what os.environ.get("LLM_DEBUG", "False") was at module load
    nsetenv,      \* number of environment changes made so far
    call,         \* the last call made into the layer: [fn, arg, ext]; fn "" before the first
    ret,          \* what that call gave back: [kind, value, exc, cause]
    events,       \* what that call did, in order (log records, callers entered, ...)
    sent,         \* the completion requests that call issued, in order
    llm_config,   \* the LLMConfig handed to the pool builder
    llm_pool,     \* the result of get_llm_pool(llm_config)
    used          \* the token counts recorded so far by the counters of the pool, per key

vars == <<environ, DEBUG_MODE, loaded_debug, nsetenv, call, ret, events, sent,
          llm_config, llm_pool, used>>

----------------------------------------------------------------------------
(* Bounds of the model *)

MaxSetenv == 2
MaxMsgs == 2
MaxChatMsgs == 1
MaxModels == 2
MaxUsed == 1

----------------------------------------------------------------------------
(* Character strings *)

UpperAlpha == <<"A","B","C","D","E","F","G","H","I","J","K","L","M",
                "N","O","P","Q","R","S","T","U","V","W","X","Y","Z">>
LowerAlpha == <<"a","b","c","d","e","f","g","h","i","j","k","l","m",
                "n","o","p","q","r","s","t","u","v","w","x","y","z">>

\* the lower-case letter of each upper-case letter
LowerOf == [c \in {UpperAlpha[i] : i \in 1..26} |->
               LowerAlpha[CHOOSE i \in 1..26 : UpperAlpha[i] = c]]

\* one character of str.lower()
LowerChar(c) == IF c \in DOMAIN LowerOf THEN LowerOf[c] ELSE c

\* str.lower()
Lower(s) == [i \in 1..Len(s) |-> LowerChar(s[i])]

DigitChars == <<"0","1","2","3","4","5","6","7","8","9">>
IsDigit(c) == \E i \in 1..10 : DigitChars[i] = c
DigitVal(c) == (CHOOSE i \in 1..10 : DigitChars[i] = c) - 1

RECURSIVE DigitsVal(_)
\* the value of a string of decimal digits
DigitsVal(s) ==
    IF Len(s) = 0 THEN 0
    ELSE 10 * DigitsVal(SubSeq(s, 1, Len(s) - 1)) + DigitVal(s[Len(s)])

\* position of the decimal point, or Len(s) + 1 when there is none
DotPos(s) ==
    IF \E i \in 1..Len(s) : s[i] = "."
    THEN CHOOSE i \in 1..Len(s) : s[i] = "." /\ \A j \in 1..(i - 1) : s[j] # "."
    ELSE Len(s) + 1

\* does float(s) accept s: digits with at most one decimal point, one digit at least
\* (the decimal literals; signs, exponents, inf and nan are not among the values
\* the model puts in the environment)
FloatAccepts(s) ==
    /\ \A i \in 1..Len(s) : IsDigit(s[i]) \/ i = DotPos(s)
    /\ \E i \in 1..Len(s) : IsDigit(s[i])

\* the fraction digits of s, padded or cut to three
Frac3(s) ==
    LET f == SubSeq(s, DotPos(s) + 1, Len(s))
    IN  SubSeq(f \o <<"0","0","0">>, 1, 3)

\* float(s), in thousandths; "ValueError" when float() rejects s
float(s) ==
    IF FloatAccepts(s)
    THEN [ok |-> TRUE,
          val |-> 1000 * DigitsVal(SubSeq(s, 1, DotPos(s) - 1)) + DigitsVal(Frac3(s))]
    ELSE [ok |-> FALSE, val |-> 0]

----------------------------------------------------------------------------
(* The environment *)

s_False == <<"F","a","l","s","e">>
s_false == <<"f","a","l","s","e">>
s_true  == <<"t","r","u","e">>
s_TRUE  == <<"T","R","U","E">>
s_True  == <<"T","r","u","e">>
s_075   == <<"0",".","7","5">>
s_05    == <<"0",".","5">>
s_1     == <<"1">>
s_hot   == <<"h","o","t">>

\* the values the model gives each environment variable
EnvValues ==
    [ LLM_DEBUG                    |-> {s_TRUE, s_true, s_false},
      USE_OPENAI_API_KEY           |-> {"True", "true", "1", ""},
      OPENAI_API_KEY               |-> {"sk-1"},
      OPENAI_MODEL_NAME            |-> {"gpt-4o"},
      OPENAI_API_VERSION           |-> {"2024-02-01"},
      AZURE_OPENAI_ENDPOINT        |-> {"https://az"},
      AZURE_OPENAI_DEPLOYMENT_NAME |-> {"dep-1"},
      OLLAMA_BASE_URL              |-> {"http://ollama:1"},
      OLLAMA_MODEL                 |-> {"mistral"},
      OLLAMA_TEMPERATURE           |-> {s_05, s_1, s_hot, <<>>},
      MODEL_TYPE                   |-> {"Ollama", "ollama", "AzureOpenAI"} ]

EnvNames == DOMAIN EnvValues

\* os.environ.get(key, default)
os_environ_get(e, key, default) ==
    IF key \in DOMAIN e THEN e[key] ELSE default

\* os.environ with key set to val
SetItem(e, key, val) ==
    [k \in (DOMAIN e) \cup {key} |-> IF k = key THEN val ELSE e[k]]

\* os.environ with key removed
DelItem(e, key) == [k \in (DOMAIN e) \ {key} |-> e[k]]

----------------------------------------------------------------------------
(* debug_utils.py *)

\* DEBUG_MODE = os.environ.get("LLM_DEBUG", "False").lower() == "true"
ReadDebugMode(e) == Lower(os_environ_get(e, "LLM_DEBUG", s_False)) = s_true

\* a record of the call's event list
Ev(kind, what) == [ev |-> kind, what |-> what]

\* debug_log(message): logs only if DEBUG_MODE is True
debug_log(dbg, message) == IF dbg THEN <<Ev("debug", message)>> ELSE <<>>

\* logger.warning(message)
logger_warning(cond, message) == IF cond THEN <<Ev("warning", message)>> ELSE <<>>

----------------------------------------------------------------------------
(* llm_settings.py: each resolver gives [kind, value, exc, events] *)

Returns(v, evs) == [kind |-> "return", value |-> v, exc |-> "", events |-> evs]
Raises(x, evs)  == [kind |-> "raise", value |-> "", exc |-> x, events |-> evs]

use_openai_api_key(e, dbg) ==
    LET val == os_environ_get(e, "USE_OPENAI_API_KEY", "False") = "True"
    IN  Returns(val, debug_log(dbg, "use_openai_api_key"))

get_openai_config(e, dbg) ==
    LET api_key    == os_environ_get(e, "OPENAI_API_KEY", "")
        model_name == os_environ_get(e, "OPENAI_MODEL_NAME", "")
        temperature == 0
    IN  Returns([api_key |-> api_key, model_name |-> model_name,
                 temperature |-> temperature],
                debug_log(dbg, "get_openai_config")
                \o logger_warning(api_key = "", "OPENAI_API_KEY"))

get_azure_config(e, dbg) ==
    LET api_version     == os_environ_get(e, "OPENAI_API_VERSION", "")
        azure_endpoint  == os_environ_get(e, "AZURE_OPENAI_ENDPOINT", "")
        deployment_name == os_environ_get(e, "AZURE_OPENAI_DEPLOYMENT_NAME", "")
        temperature == 0
    IN  Returns([api_version |-> api_version, azure_endpoint |-> azure_endpoint,
                 deployment_name |-> deployment_name, temperature |-> temperature],
                logger_warning(azure_endpoint = "", "AZURE_OPENAI_ENDPOINT")
                \o logger_warning(deployment_name = "", "AZURE_OPENAI_DEPLOYMENT_NAME")
                \o debug_log(dbg, "get_azure_config"))

get_ollama_config(e, dbg) ==
    LET base_url    == os_environ_get(e, "OLLAMA_BASE_URL", "http://localhost:11434")
        model_name  == os_environ_get(e, "OLLAMA_MODEL", "llama2")
        temperature == float(os_environ_get(e, "OLLAMA_TEMPERATURE", s_075))
    IN  IF ~temperature.ok
        THEN Raises("ValueError:float", <<>>)
        ELSE Returns([base_url |-> base_url, model_name |-> model_name,
                      temperature |-> temperature.val],
                     debug_log(dbg, "get_ollama_config"))

\* get_model_type that keeps giving the built-in default, whatever MODEL_TYPE is
get_model_type_stale(e, dbg) ==
    Returns("AzureOpenAI", debug_log(dbg, "get_model_type"))

get_model_type(e, dbg) ==
    LET model_type == os_environ_get(e, "MODEL_TYPE", "AzureOpenAI")
    IN  Returns(model_type, debug_log(dbg, "get_model_type"))

----------------------------------------------------------------------------
(* The layer's state before any call *)

NoCall == [fn |-> "", arg |-> <<>>, ext |-> ""]
NoRet  == [kind |-> "", value |-> "", exc |-> "", cause |-> ""]
NoConfig == [azure_open_ai |-> [present |-> FALSE, azure_oai_models |-> <<>>],
             custom_models |-> <<>>]

\* module load: debug_utils reads LLM_DEBUG once
ModuleLoad(e) ==
    /\ environ = e
    /\ loaded_debug = os_environ_get(e, "LLM_DEBUG", s_False)
    /\ DEBUG_MODE = ReadDebugMode(e)
    /\ nsetenv = 0
    /\ ret = NoRet
    /\ events = <<>>
    /\ sent = <<>>
    /\ llm_pool = [state |-> "none", handles |-> <<>>]
    /\ used = <<>>

\* the result of a call that gave back r (of the resolvers' and callers' shape)
Gives(r, cause) == [kind |-> r.kind, value |-> r.value, exc |-> r.exc, cause |-> cause]

----------------------------------------------------------------------------
(* Specification of the configuration resolvers under a changing environment *)

\* environments the process may be started in: nothing set, or only LLM_DEBUG
StartEnvs == {<<>>} \cup {SetItem(<<>>, "LLM_DEBUG", v) : v \in EnvValues["LLM_DEBUG"]}

InitSettings ==
    /\ \E e \in StartEnvs : ModuleLoad(e)
    /\ call = NoCall
    /\ llm_config = NoConfig

\* os.environ[key] = val, done by the process around the layer
Setenv(key, val) ==
    /\ nsetenv < MaxSetenv
    /\ environ' = SetItem(environ, key, val)
    /\ nsetenv' = nsetenv + 1
    /\ call' = [fn |-> "setenv", arg |-> <<key>>, ext |-> ""]
    /\ UNCHANGED <<DEBUG_MODE, loaded_debug, ret, events, sent, llm_config, llm_pool, used>>

\* del os.environ[key]
Unsetenv(key) ==
    /\ nsetenv < MaxSetenv
    /\ key \in DOMAIN environ
    /\ environ' = DelItem(environ, key)
    /\ nsetenv' = nsetenv + 1
    /\ call' = [fn |-> "unsetenv", arg |-> <<key>>, ext |-> ""]
    /\ UNCHANGED <<DEBUG_MODE, loaded_debug, ret, events, sent, llm_config, llm_pool, used>>

\* a call of a resolver: r is what it gives in the current environment
ResolverCall(fn, r) ==
    /\ call' = [fn |-> fn, arg |-> <<>>, ext |-> ""]
    /\ ret' = Gives(r, "")
    /\ events' = r.events
    /\ sent' = <<>>
    /\ UNCHANGED <<environ, DEBUG_MODE, loaded_debug, nsetenv, llm_config, llm_pool, used>>

Call_use_openai_api_key ==
    ResolverCall("use_openai_api_key", use_openai_api_key(environ, DEBUG_MODE))
Call_get_openai_config ==
    ResolverCall("get_openai_config", get_openai_config(environ, DEBUG_MODE))
Call_get_azure_config ==
    ResolverCall("get_azure_config", get_azure_config(environ, DEBUG_MODE))
Call_get_ollama_config ==
    ResolverCall("get_ollama_config", get_ollama_config(environ, DEBUG_MODE))
Call_get_model_type ==
    ResolverCall("get_model_type", get_model_type(environ, DEBUG_MODE))

ChangeEnv ==
    \E key \in EnvNames : (\E val \in EnvValues[key] : Setenv(key, val)) \/ Unsetenv(key)

NextSettings ==
    \/ ChangeEnv
    \/ Call_use_openai_api_key
    \/ Call_get_openai_config
    \/ Call_get_azure_config
    \/ Call_get_ollama_config
    \/ Call_get_model_type

SpecSettings == InitSettings /\ [][NextSettings]_vars

----------------------------------------------------------------------------
(* llm_mgr.py: the message normalizer *)

s_assistant == <<"a","s","s","i","s","t","a","n","t">>
s_Assistant == <<"A","s","s","i","s","t","a","n","t">>
s_system    == <<"s","y","s","t","e","m">>
s_SYSTEM    == <<"S","Y","S","T","E","M">>
s_user      == <<"u","s","e","r">>
s_tool      == <<"t","o","o","l">>

\* a Python dict with the one key k
Dict1(k, v) == [x \in {k} |-> v]

\* dict.get(key, default)
dict_get(d, key, default) == IF key \in DOMAIN d THEN d[key] ELSE default

\* ChatMessage(role=role, content=content)
ChatMessage(role, content) == [role |-> role, content |-> content]

\* MessageRole(...).value
RoleValue(role) ==
    CASE role = "ASSISTANT" -> "assistant"
      [] role = "SYSTEM"    -> "system"
      [] role = "USER"      -> "user"

\* to_chat_message that compares the role as written, without lower()
to_chat_message_cased(msg) ==
    LET role_str == dict_get(msg, "role", s_user)
        role == IF role_str = s_assistant THEN "ASSISTANT"
                ELSE IF role_str = s_system THEN "SYSTEM"
                ELSE "USER"
    IN  ChatMessage(role, dict_get(msg, "content", ""))

\* the body of the loop of dict_to_chat_messages, for one entry
to_chat_message(msg) ==
    LET role_str == Lower(dict_get(msg, "role", s_user))
        role == IF role_str = s_assistant THEN "ASSISTANT"
                ELSE IF role_str = s_system THEN "SYSTEM"
                ELSE "USER"
    IN  ChatMessage(role, dict_get(msg, "content", ""))

dict_to_chat_messages(messages_dict) ==
    IF "messages" \notin DOMAIN messages_dict
    THEN Raises("ValueError:messages", <<Ev("normalize", "")>>)
    ELSE LET msgs == messages_dict["messages"]
         IN  Returns([i \in 1..Len(msgs) |-> to_chat_message(msgs[i])],
                     <<Ev("normalize", "")>>)

----------------------------------------------------------------------------
(* Inputs of the normalizer and of the callers *)

\* the dicts over the keys "role" and "content", roles from rs, contents from cs
EntriesOver(rs, cs) ==
    {<<>>}
    \cup {Dict1("role", r) : r \in rs}
    \cup {Dict1("content", c) : c \in cs}
    \cup {Dict1("role", r) @@ Dict1("content", c) : r \in rs, c \in cs}

\* the sequences over S of length 0..n
SeqsUpTo(S, n) == UNION {[1..k -> S] : k \in 0..n}

\* the message mappings: without the key "messages", or with up to n entries
MappingsOver(E, n) == {<<>>} \cup {Dict1("messages", ms) : ms \in SeqsUpTo(E, n)}

NormEntries == EntriesOver({s_assistant, s_Assistant, s_SYSTEM, s_tool}, {"hi"})
NormInputs  == MappingsOver(NormEntries, MaxMsgs)

----------------------------------------------------------------------------
(* Specification of the normalizer *)

\* the mapping m is at hand, nothing has been called on it yet
InputAtHand(m, ext) == call = [fn |-> "", arg |-> m, ext |-> ext]

InitNormalizer ==
    /\ \E m \in NormInputs :
          /\ ModuleLoad(<<>>)
          /\ InputAtHand(m, "")
    /\ llm_config = NoConfig

Call_dict_to_chat_messages ==
    LET r == dict_to_chat_messages(call.arg)
    IN  /\ call' = [call EXCEPT !.fn = "dict_to_chat_messages"]
        /\ ret' = Gives(r, "")
        /\ events' = r.events
        /\ sent' = <<>>
        /\ UNCHANGED <<environ, DEBUG_MODE, loaded_debug, nsetenv,
                       llm_config, llm_pool, used>>

NextNormalizer == Call_dict_to_chat_messages

SpecNormalizer == InitNormalizer /\ [][NextNormalizer]_vars

----------------------------------------------------------------------------
(* llm_mgr.py: the provider callers.  Each gives [kind, value, exc, cause,       *)
(* events, sent].  ext is what the provider's SDK does in this call:              *)
(*   "import"   the import of the SDK at the head of the caller raises            *)
(*   "ok"       the request is answered with the completion text                  *)
(*   "client"   constructing the client (for Azure also the credential and the    *)
(*              token provider) raises                                            *)
(*   "request"  the request raises (transport failure; for Azure also the token   *)
(*              acquisition the SDK makes for the request)                        *)
(*   "extract"  the response has no first choice (OpenAI, Azure: choices[0]       *)
(*              raises) or no message (Ollama)                                    *)

ExtOutcomes == {"ok", "import", "client", "request", "extract"}

CompletionText == "Hello"

ExtError(ext) ==
    CASE ext = "import"  -> "ImportError"
      [] ext = "client"  -> "ClientError"
      [] ext = "request" -> "TransportError"
      [] ext = "extract" -> "IndexError"

Done(kind, value, exc, cause, evs, reqs) ==
    [kind |-> kind, value |-> value, exc |-> exc, cause |-> cause,
     events |-> evs, sent |-> reqs]

\* raise GlueLLMException("Error calling OpenAI API") from e
\* (the class is defined in ..exceptions; it is taken to accept the one message
\* argument it is given here, the cause being set by "from e")
GlueLLMException(e) == [exc |-> "GlueLLMException", cause |-> e]

\* one chat-completion request, as handed to the provider's SDK
Request(provider, model, temperature, messages) ==
    [provider |-> provider, model |-> model, temperature |-> temperature,
     messages |-> messages]

\* _call_openai_api that gives up on a failure without raising
_call_openai_api_swallow(e, dbg, messages, ext) ==
    LET cfg  == get_openai_config(e, dbg)
        norm == dict_to_chat_messages(messages)
        ev0  == <<Ev("enter", "_call_openai_api")>> \o cfg.events \o norm.events
    IN  IF norm.kind = "raise"
        THEN Done("raise", "", norm.exc, "", ev0, <<>>)
        ELSE Done("return", IF ext = "ok" THEN CompletionText ELSE "", "", "", ev0, <<>>)

_call_openai_api(e, dbg, messages, ext) ==
    LET cfg  == get_openai_config(e, dbg)
        norm == dict_to_chat_messages(messages)
        ev0  == <<Ev("enter", "_call_openai_api")>> \o cfg.events \o norm.events
        req  == Request("openai", cfg.value.model_name, cfg.value.temperature,
                        [i \in 1..Len(norm.value) |->
                            [role |-> RoleValue(norm.value[i].role),
                             content |-> norm.value[i].content]])
    IN  IF ext = "import"
        THEN Done("raise", "", ExtError(ext), "", <<Ev("enter", "_call_openai_api")>>, <<>>)
        ELSE IF norm.kind = "raise"
        THEN Done("raise", "", norm.exc, "", ev0, <<>>)
        ELSE IF ext = "client"
        THEN LET x == GlueLLMException(ExtError(ext))
             IN  Done("raise", "", x.exc, x.cause,
                      ev0 \o <<Ev("error", "_call_openai_api")>>, <<>>)
        ELSE IF ext \in {"request", "extract"}
        THEN LET x == GlueLLMException(ExtError(ext))
             IN  Done("raise", "", x.exc, x.cause,
                      ev0 \o <<Ev("request", "openai"), Ev("error", "_call_openai_api")>>,
                      <<req>>)
        ELSE Done("return", CompletionText, "", "",
                  ev0 \o <<Ev("request", "openai")>>, <<req>>)

\* _call_azure_api that normalizes the mapping like the other two callers
_call_azure_api_normalizing(e, dbg, messages, ext) ==
    LET cfg  == get_azure_config(e, dbg)
        norm == dict_to_chat_messages(messages)
        ev0  == <<Ev("enter", "_call_azure_api")>> \o cfg.events \o norm.events
        req  == Request("azure", cfg.value.deployment_name, cfg.value.temperature,
                        norm.value)
    IN  IF norm.kind = "raise"
        THEN Done("raise", "", norm.exc, "", ev0, <<>>)
        ELSE IF ext = "client"
        THEN Done("raise", "", ExtError(ext), "", ev0, <<>>)
        ELSE IF ext \in {"request", "extract"}
        THEN Done("raise", "", ExtError(ext), "", ev0 \o <<Ev("request", "azure")>>, <<req>>)
        ELSE Done("return", CompletionText, "", "", ev0 \o <<Ev("request", "azure")>>, <<req>>)

_call_azure_api(e, dbg, messages, ext) ==
    LET cfg  == get_azure_config(e, dbg)
        ev0  == <<Ev("enter", "_call_azure_api")>> \o cfg.events
        req  == Request("azure", cfg.value.deployment_name, cfg.value.temperature,
                        messages)
    IN  IF ext = "import"
        THEN Done("raise", "", ExtError(ext), "", <<Ev("enter", "_call_azure_api")>>, <<>>)
        ELSE IF ext = "client"
        THEN Done("raise", "", ExtError(ext), "", ev0, <<>>)
        ELSE IF ext \in {"request", "extract"}
        THEN Done("raise", "", ExtError(ext), "", ev0 \o <<Ev("request", "azure")>>, <<req>>)
        ELSE Done("return", CompletionText, "", "", ev0 \o <<Ev("request", "azure")>>, <<req>>)

_call_ollama_api(e, dbg, messages, ext) ==
    LET cfg  == get_ollama_config(e, dbg)
        ev0  == <<Ev("enter", "_call_ollama_api")>> \o cfg.events
        norm == dict_to_chat_messages(messages)
        ev1  == ev0 \o norm.events
        req  == Request("ollama", cfg.value.model_name, cfg.value.temperature, norm.value)
    IN  IF ext = "import"
        THEN Done("raise", "", ExtError(ext), "", <<Ev("enter", "_call_ollama_api")>>, <<>>)
        ELSE IF cfg.kind = "raise"
        THEN Done("raise", "", cfg.exc, "", ev0, <<>>)
        ELSE IF norm.kind = "raise"
        THEN Done("raise", "", norm.exc, "", ev1, <<>>)
        ELSE IF ext = "client"
        THEN Done("raise", "", ExtError(ext), "", ev1, <<>>)
        ELSE IF ext = "request"
        THEN Done("raise", "", ExtError(ext), "", ev1 \o <<Ev("request", "ollama")>>, <<req>>)
        ELSE Done("return", IF ext = "extract" THEN "" ELSE CompletionText, "", "",
                  ev1 \o <<Ev("request", "ollama")>>, <<req>>)

----------------------------------------------------------------------------
(* llm_mgr.py: the dispatcher *)

\* env_based_chat_completion that looks at the OpenAI key flag before MODEL_TYPE
env_based_chat_completion_keyfirst(e, dbg, messages, ext) ==
    LET provider == get_model_type(e, dbg)
        usekey   == use_openai_api_key(e, dbg)
        r == IF usekey.value THEN _call_openai_api(e, dbg, messages, ext)
             ELSE IF provider.value = "Ollama" THEN _call_ollama_api(e, dbg, messages, ext)
             ELSE _call_azure_api(e, dbg, messages, ext)
    IN  [r EXCEPT !.events = provider.events \o usekey.events \o r.events]

env_based_chat_completion(e, dbg, messages, ext) ==
    LET provider == get_model_type(e, dbg)
        usekey   == use_openai_api_key(e, dbg)
    IN  IF provider.value = "Ollama"
        THEN LET r == _call_ollama_api(e, dbg, messages, ext)
             IN  [r EXCEPT !.events = provider.events \o r.events]
        ELSE IF usekey.value
        THEN LET r == _call_openai_api(e, dbg, messages, ext)
             IN  [r EXCEPT !.events = provider.events \o usekey.events \o r.events]
        ELSE LET r == _call_azure_api(e, dbg, messages, ext)
             IN  [r EXCEPT !.events = provider.events \o usekey.events \o r.events]

FallbackSentence == "Sorry, I am not able to understand your query. Please try again."

\* LLMMgr._handle_llm_error
_handle_llm_error(r) ==
    Done("return", FallbackSentence, "", "",
         r.events \o <<Ev("error", "chat_completion")>>, r.sent)

\* LLMMgr.chat_completion that tries the dispatch a second time after a failure
chat_completion_retry(e, dbg, messages, ext) ==
    LET r == env_based_chat_completion(e, dbg, messages, ext)
    IN  IF r.kind = "raise"
        THEN _handle_llm_error([r EXCEPT !.events = r.events \o r.events,
                                        !.sent = r.sent \o r.sent])
        ELSE r

\* LLMMgr.chat_completion that lets the caller's failure out
chat_completion_uncaught(e, dbg, messages, ext) ==
    LET llm_handle == get_model_type(e, dbg)
        r == env_based_chat_completion(e, dbg, messages, ext)
    IN  [r EXCEPT !.events = llm_handle.events \o r.events]

\* LLMMgr.chat_completion
chat_completion(e, dbg, messages, ext) ==
    LET llm_handle == get_model_type(e, dbg)
        r == env_based_chat_completion(e, dbg, messages, ext)
        t == IF r.kind = "raise" THEN _handle_llm_error(r) ELSE r
    IN  [t EXCEPT !.events = llm_handle.events \o t.events]

----------------------------------------------------------------------------
(* Specification of the dispatcher and the callers *)

ChatEntries == {<<>>, Dict1("role", s_SYSTEM) @@ Dict1("content", "hi")}
ChatInputs  == MappingsOver(ChatEntries, MaxChatMsgs)

\* key unset, or set to one of vals
Setting(key, vals) == {<<>>} \cup {Dict1(key, v) : v \in vals}

\* the environments a call is made in: every setting of the variables the
\* dispatcher and the Ollama resolver read, with the debug flag on or off
ChatEnvs ==
    {a @@ b @@ c @@ d :
        a \in Setting("MODEL_TYPE", EnvValues["MODEL_TYPE"]),
        b \in Setting("USE_OPENAI_API_KEY", EnvValues["USE_OPENAI_API_KEY"]),
        c \in Setting("OLLAMA_TEMPERATURE", {s_05, s_hot}),
        d \in Setting("LLM_DEBUG", {s_TRUE})}

Init ==
    /\ \E e \in ChatEnvs : ModuleLoad(e)
    /\ \E m \in ChatInputs, ext \in ExtOutcomes : InputAtHand(m, ext)
    /\ llm_config = NoConfig

\* a call of fn on the mapping at hand, the SDK doing call.ext: r is what it gives
CallerCall(fn, r) ==
    /\ call' = [call EXCEPT !.fn = fn]
    /\ ret' = [kind |-> r.kind, value |-> r.value, exc |-> r.exc, cause |-> r.cause]
    /\ events' = r.events
    /\ sent' = r.sent
    /\ UNCHANGED <<environ, DEBUG_MODE, loaded_debug, nsetenv, llm_config, llm_pool, used>>

Call_chat_completion ==
    CallerCall("chat_completion",
               chat_completion(environ, DEBUG_MODE, call.arg, call.ext))

Call_env_based_chat_completion ==
    CallerCall("env_based_chat_completion",
               env_based_chat_completion(environ, DEBUG_MODE, call.arg, call.ext))

Call__call_openai_api ==
    CallerCall("_call_openai_api", _call_openai_api(environ, DEBUG_MODE, call.arg, call.ext))

Call__call_azure_api ==
    CallerCall("_call_azure_api", _call_azure_api(environ, DEBUG_MODE, call.arg, call.ext))

Call__call_ollama_api ==
    CallerCall("_call_ollama_api", _call_ollama_api(environ, DEBUG_MODE, call.arg, call.ext))

Next ==
    \/ Call_chat_completion
    \/ Call_env_based_chat_completion
    \/ Call__call_openai_api
    \/ Call__call_azure_api
    \/ Call__call_ollama_api

Spec == Init /\ [][Next]_vars

----------------------------------------------------------------------------
(* llm_mgr.py: the model pool builder.                                          *)
(* An LLMConfig is [azure_open_ai, custom_models]: azure_open_ai is absent      *)
(* (None) or holds the list azure_oai_models; custom_models is a list.  An      *)
(* entry is [unique_model_id, model_type, track_tokens].                        *)

\* LLMOutputTypes
CHAT == "chat"
COMPLETION == "completion"
EMBEDDINGS == "embeddings"
MULTI_MODAL == "multimodal"

\* a model handle: the class constructed, the entry it was constructed for
\* (<<"azure", i>> or <<"custom", i>>) and whether a callback manager with a token
\* counter was handed to the constructor
Handle(cls, src, counting) == [cls |-> cls, src |-> src, counting |-> counting]

\* maybe_add_token_counter: a callback manager with a counter, or None
maybe_add_token_counter(track_tokens) == track_tokens

\* pool with key bound to handle (llm_pool[key] = handle)
PoolSet(pool, key, handle) ==
    [k \in (DOMAIN pool) \cup {key} |-> IF k = key THEN handle ELSE pool[k]]

\* one pass of the loop over azure_oai_models
AzureStep(pool, m, i) ==
    LET callback_mgr == maybe_add_token_counter(m.track_tokens)
    IN  IF m.model_type \in {CHAT, COMPLETION}
        THEN PoolSet(pool, m.unique_model_id, Handle("AzureOpenAI", <<"azure", i>>, FALSE))
        ELSE IF m.model_type = EMBEDDINGS
        THEN PoolSet(pool, m.unique_model_id,
                     Handle("AzureOpenAIEmbedding", <<"azure", i>>, callback_mgr))
        ELSE IF m.model_type = MULTI_MODAL
        THEN PoolSet(pool, m.unique_model_id,
                     Handle("AzureOpenAIMultiModal", <<"azure", i>>, FALSE))
        ELSE pool

\* one pass of the loop over custom_models
CustomStep(pool, m, i) ==
    LET callback_mgr == m.track_tokens
    IN  PoolSet(pool, m.unique_model_id, Handle("custom", <<"custom", i>>, callback_mgr))

RECURSIVE AzureLoop(_, _, _)
\* the loop over azure_oai_models, from entry i on
AzureLoop(pool, models, i) ==
    IF i > Len(models) THEN pool
    ELSE AzureLoop(AzureStep(pool, models[i], i), models, i + 1)

RECURSIVE CustomLoop(_, _, _)
\* the loop over custom_models, from entry i on
CustomLoop(pool, models, i) ==
    IF i > Len(models) THEN pool
    ELSE CustomLoop(CustomStep(pool, models[i], i), models, i + 1)

\* pool set that keeps the handle a key already has
PoolSetKeepFirst(pool, key, handle) ==
    [k \in (DOMAIN pool) \cup {key} |-> IF k \in DOMAIN pool THEN pool[k] ELSE handle]

RECURSIVE CustomLoopKeepFirst(_, _, _)
CustomLoopKeepFirst(pool, models, i) ==
    IF i > Len(models) THEN pool
    ELSE CustomLoopKeepFirst(
            PoolSetKeepFirst(pool, models[i].unique_model_id,
                             Handle("custom", <<"custom", i>>, models[i].track_tokens)),
            models, i + 1)

\* get_llm_pool in which a key that is already in the pool is not overwritten by
\* a custom model
get_llm_pool_keep_first(cfg, collaborators_ok) ==
    IF ~collaborators_ok
    THEN [state |-> "raised", handles |-> <<>>]
    ELSE LET az == IF cfg.azure_open_ai.present
                   THEN AzureLoop(<<>>, cfg.azure_open_ai.azure_oai_models, 1)
                   ELSE <<>>
         IN  [state |-> "built", handles |-> CustomLoopKeepFirst(az, cfg.custom_models, 1)]

\* LLMMgr.get_llm_pool; collaborators_ok: the installer, the imports, the
\* tokenizer lookup and the class loader all succeed (the builder catches nothing)
get_llm_pool(cfg, collaborators_ok) ==
    IF ~collaborators_ok
    THEN [state |-> "raised", handles |-> <<>>]
    ELSE LET az == IF cfg.azure_open_ai.present
                   THEN AzureLoop(<<>>, cfg.azure_open_ai.azure_oai_models, 1)
                   ELSE <<>>
         IN  [state |-> "built", handles |-> CustomLoop(az, cfg.custom_models, 1)]

RECURSIVE AzureIdsOfType(_, _, _)
\* the loop of get_all_model_ids_of_type over azure_oai_models, from entry i on
AzureIdsOfType(models, llm_output_type, i) ==
    IF i > Len(models) THEN <<>>
    ELSE (IF models[i].model_type = llm_output_type
          THEN <<models[i].unique_model_id>> ELSE <<>>)
         \o AzureIdsOfType(models, llm_output_type, i + 1)

\* LLMMgr.get_all_model_ids_of_type: custom_models, a list, is asked for the
\* attributes model_type and unique_model_id of one model
get_all_model_ids_of_type(cfg, llm_output_type) ==
    LET res == IF cfg.azure_open_ai.present
               THEN AzureIdsOfType(cfg.azure_open_ai.azure_oai_models, llm_output_type, 1)
               ELSE <<>>
    IN  IF Len(cfg.custom_models) > 0
        THEN Raises("AttributeError", <<>>)
        ELSE Returns(res, <<>>)

\* the counts of a counter after reset_counts()
ZeroCounts == [total_embedding_token_count |-> 0, prompt_llm_token_count |-> 0,
               completion_llm_token_count |-> 0, total_llm_token_count |-> 0]

\* Python's None, where a dict may stand instead
None == <<>>

\* llm_helper.get_token_counter: the handle's token counter, or None
get_token_counter(handle) == handle.counting

\* LLMMgr.get_tokens_used, counts being the handle's counter's counts
get_tokens_used(handle, counts) ==
    IF get_token_counter(handle)
    THEN Returns([embedding_token_count |-> counts.total_embedding_token_count,
                  prompt_llm_token_count |-> counts.prompt_llm_token_count,
                  completion_llm_token_count |-> counts.completion_llm_token_count,
                  total_llm_token_count |-> counts.total_llm_token_count], <<>>)
    ELSE Returns(None, <<>>)

----------------------------------------------------------------------------
(* Specification of the model pool builder *)

ModelIds == {"m1", "m2"}
AzureTypes == {CHAT, COMPLETION, EMBEDDINGS, MULTI_MODAL, "other"}
CustomTypes == {CHAT, "custom"}
AskedTypes == {CHAT, EMBEDDINGS, "custom"}

AzureEntries  == [unique_model_id : ModelIds, model_type : AzureTypes, track_tokens : BOOLEAN]
CustomEntries == [unique_model_id : ModelIds, model_type : CustomTypes, track_tokens : BOOLEAN]

\* the configurations with na Azure entries (or no azure_open_ai at all when
\* na is 0) and nc custom entries
ConfigsOfSize(na, nc) ==
    {[azure_open_ai |-> [present |-> TRUE, azure_oai_models |-> a], custom_models |-> c] :
        a \in [1..na -> AzureEntries], c \in [1..nc -> CustomEntries]}
    \cup
    {[azure_open_ai |-> [present |-> FALSE, azure_oai_models |-> <<>>], custom_models |-> c] :
        c \in IF na = 0 THEN [1..nc -> CustomEntries] ELSE {}}

\* the configurations with at most MaxModels entries in all
Configs ==
    UNION {UNION {ConfigsOfSize(na, nc) : nc \in 0..(MaxModels - na)} : na \in 0..MaxModels}

InitPool ==
    /\ ModuleLoad(<<>>)
    /\ call = NoCall
    /\ llm_config \in Configs

Call_get_llm_pool ==
    \E ok \in BOOLEAN :
        LET p == get_llm_pool(llm_config, ok)
        IN  /\ llm_pool' = p
            /\ used' = [k \in DOMAIN p.handles |-> ZeroCounts]
            /\ call' = [fn |-> "get_llm_pool", arg |-> <<>>, ext |-> IF ok THEN "ok" ELSE "fail"]
            /\ ret' = [kind |-> IF ok THEN "return" ELSE "raise", value |-> "",
                       exc |-> IF ok THEN "" ELSE "CollaboratorError", cause |-> ""]
            /\ events' = <<>>
            /\ sent' = <<>>
            /\ UNCHANGED <<environ, DEBUG_MODE, loaded_debug, nsetenv, llm_config>>

Call_get_all_model_ids_of_type ==
    \E t \in AskedTypes :
        LET r == get_all_model_ids_of_type(llm_config, t)
        IN  /\ call' = [fn |-> "get_all_model_ids_of_type", arg |-> t, ext |-> ""]
            /\ ret' = Gives(r, "")
            /\ events' = <<>>
            /\ sent' = <<>>
            /\ UNCHANGED <<environ, DEBUG_MODE, loaded_debug, nsetenv,
                           llm_config, llm_pool, used>>

Call_get_tokens_used ==
    /\ llm_pool.state = "built"
    /\ \E k \in DOMAIN llm_pool.handles :
        LET r == get_tokens_used(llm_pool.handles[k], used[k])
        IN  /\ call' = [fn |-> "get_tokens_used", arg |-> k, ext |-> ""]
            /\ ret' = Gives(r, "")
            /\ events' = <<>>
            /\ sent' = <<>>
            /\ UNCHANGED <<environ, DEBUG_MODE, loaded_debug, nsetenv,
                           llm_config, llm_pool, used>>

\* the sum of all counts recorded in the pool
RECURSIVE TotalUsed(_)
TotalUsed(S) ==
    IF S = {} THEN 0
    ELSE LET k == CHOOSE x \in S : TRUE
         IN  used[k].total_llm_token_count + used[k].total_embedding_token_count
             + TotalUsed(S \ {k})

\* a call made through handle k of the pool is counted by k's token counter:
\* an embedding call one embedding token, any other call one prompt and one
\* completion token
HandleUsed ==
    /\ llm_pool.state = "built"
    /\ TotalUsed(DOMAIN used) < 2 * MaxUsed
    /\ \E k \in DOMAIN llm_pool.handles :
        /\ llm_pool.handles[k].counting
        /\ used' = [used EXCEPT ![k] =
              IF llm_pool.handles[k].cls = "AzureOpenAIEmbedding"
              THEN [@ EXCEPT !.total_embedding_token_count = @ + 1]
              ELSE [@ EXCEPT !.prompt_llm_token_count = @ + 1,
                             !.completion_llm_token_count = @ + 1,
                             !.total_llm_token_count = @ + 2]]
        /\ call' = [fn |-> "use", arg |-> k, ext |-> ""]
        /\ UNCHANGED <<environ, DEBUG_MODE, loaded_debug, nsetenv, ret, events, sent,
                       llm_config, llm_pool>>

NextPool ==
    \/ Call_get_llm_pool
    \/ Call_get_all_model_ids_of_type
    \/ Call_get_tokens_used
    \/ HandleUsed

SpecPool == InitPool /\ [][NextPool]_vars

----------------------------------------------------------------------------
(* C8 *)

ResolverFns == {"use_openai_api_key", "get_openai_config", "get_azure_config",
                "get_ollama_config", "get_model_type"}

\* the documented value of a variable in environment e: its value, or the default
Documented(e, key, default) == IF key \in DOMAIN e THEN e[key] ELSE default

\* the documented temperature, in thousandths, of each OLLAMA_TEMPERATURE text
\* (-1: not numeric)
DocumentedTemperature(txt) ==
    CASE txt = s_075 -> 750
      [] txt = s_05  -> 500
      [] txt = s_1   -> 1000
      [] OTHER       -> -1

\* what resolver fn is documented to give in environment e
DocumentedResult(fn, e) ==
    CASE fn = "use_openai_api_key" ->
            [kind |-> "return", exc |-> "", cause |-> "",
             value |-> ("USE_OPENAI_API_KEY" \in DOMAIN e /\ e["USE_OPENAI_API_KEY"] = "True")]
      [] fn = "get_openai_config" ->
            [kind |-> "return", exc |-> "", cause |-> "",
             value |-> [api_key |-> Documented(e, "OPENAI_API_KEY", ""),
                        model_name |-> Documented(e, "OPENAI_MODEL_NAME", ""),
                        temperature |-> 0]]
      [] fn = "get_azure_config" ->
            [kind |-> "return", exc |-> "", cause |-> "",
             value |-> [api_version |-> Documented(e, "OPENAI_API_VERSION", ""),
                        azure_endpoint |-> Documented(e, "AZURE_OPENAI_ENDPOINT", ""),
                        deployment_name |-> Documented(e, "AZURE_OPENAI_DEPLOYMENT_NAME", ""),
                        temperature |-> 0]]
      [] fn = "get_ollama_config" ->
            LET t == DocumentedTemperature(Documented(e, "OLLAMA_TEMPERATURE", s_075))
            IN  IF t < 0
                THEN [kind |-> "raise", exc |-> "ValueError:float", cause |-> "", value |-> ""]
                ELSE [kind |-> "return", exc |-> "", cause |-> "",
                      value |-> [base_url |-> Documented(e, "OLLAMA_BASE_URL", "http://localhost:11434"),
                                 model_name |-> Documented(e, "OLLAMA_MODEL", "llama2"),
                                 temperature |-> t]]
      [] fn = "get_model_type" ->
            [kind |-> "return", exc |-> "", cause |-> "",
             value |-> Documented(e, "MODEL_TYPE", "AzureOpenAI")]

\* the debug flag LLM_DEBUG stood for when the module was loaded
FlagAtLoad == loaded_debug \in {s_true, s_TRUE, s_True}

\* C8: in every step, the debug flag is the one computed from LLM_DEBUG at module
\* load, whatever LLM_DEBUG is now; and a step that is a resolver call leaves the
\* environment as it is, gives the value documented for the environment as it is
\* at that call (defaults for unset variables), and writes debug records exactly
\* when the flag of module load is on.
C8_ResolversReadEnvAtCall ==
    [][ /\ DEBUG_MODE = FlagAtLoad
        /\ DEBUG_MODE' = FlagAtLoad
        /\ call'.fn \in ResolverFns =>
              /\ environ' = environ
              /\ ret' = DocumentedResult(call'.fn, environ)
              /\ (\E i \in 1..Len(events') : events'[i].ev = "debug")
                     <=> (FlagAtLoad /\ ret'.kind = "return") ]_vars

\* C8 witness: MODEL_TYPE and LLM_DEBUG were both changed after module load, the
\* flag still is the one of module load, and get_model_type gave the new MODEL_TYPE
C8_Witness ==
    /\ call.fn = "get_model_type"
    /\ ret.value = "Ollama"
    /\ nsetenv = 2
    /\ "LLM_DEBUG" \in DOMAIN environ
    /\ environ["LLM_DEBUG"] = s_true
    /\ loaded_debug = s_False
    /\ ~DEBUG_MODE


----------------------------------------------------------------------------
(* C3 *)

\* the role the normalizer is to give an entry
RoleFor(entry) ==
    IF "role" \notin DOMAIN entry THEN "USER"
    ELSE IF entry["role"] \in {s_assistant, s_Assistant} THEN "ASSISTANT"
    ELSE IF entry["role"] \in {s_system, s_SYSTEM} THEN "SYSTEM"
    ELSE "USER"

\* the content the normalizer is to give an entry
ContentFor(entry) == IF "content" \in DOMAIN entry THEN entry["content"] ELSE ""

\* C3: dict_to_chat_messages on a mapping with the key "messages" returns one
\* message per entry, in the entries' order, entry i giving role ASSISTANT, SYSTEM
\* or USER by its lower-cased "role" (USER for any other or absent role) and its
\* "content" or the empty string; on a mapping without the key it raises the
\* validation error and returns nothing.
C3_NormalizerMapsEntries ==
    call.fn = "dict_to_chat_messages" =>
        IF "messages" \in DOMAIN call.arg
        THEN /\ ret.kind = "return"
             /\ Len(ret.value) = Len(call.arg["messages"])
             /\ \A i \in 1..Len(call.arg["messages"]) :
                    /\ ret.value[i].role = RoleFor(call.arg["messages"][i])
                    /\ ret.value[i].content = ContentFor(call.arg["messages"][i])
        ELSE /\ ret.kind = "raise"
             /\ ret.exc = "ValueError:messages"
             /\ ret.value = ""

\* C3 witness: a mixed-case role followed by an empty entry, normalized in order
C3_Witness ==
    /\ call.fn = "dict_to_chat_messages"
    /\ call.arg = Dict1("messages", <<Dict1("role", s_SYSTEM) @@ Dict1("content", "hi"), <<>>>>)
    /\ ret.kind = "return"
    /\ ret.value = <<ChatMessage("SYSTEM", "hi"), ChatMessage("USER", "")>>


----------------------------------------------------------------------------
(* What the claims about the dispatcher and the callers speak of *)

Callers == {"_call_openai_api", "_call_azure_api", "_call_ollama_api"}

\* the last call entered caller c
Entered(c) == \E i \in 1..Len(events) : events[i] = Ev("enter", c)

\* how many times the last call entered a caller
NumEntered == Cardinality({i \in 1..Len(events) : events[i].ev = "enter"})

\* the last call ran the normalizer
Normalized == \E i \in 1..Len(events) : events[i].ev = "normalize"

\* the caller the documented precedence selects in environment e
SelectedCaller(e) ==
    IF "MODEL_TYPE" \in DOMAIN e /\ e["MODEL_TYPE"] = "Ollama" THEN "_call_ollama_api"
    ELSE IF "USE_OPENAI_API_KEY" \in DOMAIN e /\ e["USE_OPENAI_API_KEY"] = "True"
    THEN "_call_openai_api"
    ELSE "_call_azure_api"

\* OLLAMA_TEMPERATURE is unset or numeric in e
TemperatureParses(e) ==
    "OLLAMA_TEMPERATURE" \in DOMAIN e => e["OLLAMA_TEMPERATURE"] \in {s_075, s_05, s_1}

\* caller c fails on mapping m in environment e when the SDK does ext
CallerFails(c, e, m, ext) ==
    CASE c = "_call_openai_api" ->
            "messages" \notin DOMAIN m \/ ext \in {"import", "client", "request", "extract"}
      [] c = "_call_azure_api" ->
            ext \in {"import", "client", "request", "extract"}
      [] c = "_call_ollama_api" ->
            \/ ~TemperatureParses(e)
            \/ "messages" \notin DOMAIN m
            \/ ext \in {"import", "client", "request"}

\* the completion text caller c returns when it does not fail
CallerText(c, ext) == IF c = "_call_ollama_api" /\ ext = "extract" THEN "" ELSE "Hello"

\* the messages the normalizer is to give for mapping m
NormalizedFor(m) ==
    [i \in 1..Len(m["messages"]) |->
        ChatMessage(RoleFor(m["messages"][i]), ContentFor(m["messages"][i]))]

----------------------------------------------------------------------------
(* C1 *)

\* C1: chat_completion always returns: the fallback sentence when the selected
\* caller fails (SDK import, transport, missing "messages" key, non-numeric
\* OLLAMA_TEMPERATURE on the Ollama path, token acquisition), the caller's
\* completion text otherwise.
C1_ChatCompletionTotal ==
    call.fn = "chat_completion" =>
        /\ ret.kind = "return"
        /\ ret.value =
              IF CallerFails(SelectedCaller(environ), environ, call.arg, call.ext)
              THEN "Sorry, I am not able to understand your query. Please try again."
              ELSE CallerText(SelectedCaller(environ), call.ext)

\* C1 witness: the Ollama path with a non-numeric temperature gave the fallback
C1_Witness ==
    /\ call.fn = "chat_completion"
    /\ call.ext = "ok"
    /\ "messages" \in DOMAIN call.arg
    /\ SelectedCaller(environ) = "_call_ollama_api"
    /\ ~TemperatureParses(environ)
    /\ ret.kind = "return"
    /\ ret.value = "Sorry, I am not able to understand your query. Please try again."

----------------------------------------------------------------------------
(* C2 *)

\* C2: the dispatcher enters the Ollama caller iff MODEL_TYPE is exactly "Ollama",
\* otherwise the OpenAI caller iff USE_OPENAI_API_KEY is exactly "True", otherwise
\* the Azure caller.
C2_ProviderPrecedence ==
    call.fn \in {"chat_completion", "env_based_chat_completion"} =>
        \A c \in Callers : Entered(c) <=> c = SelectedCaller(environ)

\* C2 witness: MODEL_TYPE "Ollama" together with USE_OPENAI_API_KEY "True" entered
\* the Ollama caller
C2_Witness ==
    /\ call.fn = "chat_completion"
    /\ "MODEL_TYPE" \in DOMAIN environ /\ environ["MODEL_TYPE"] = "Ollama"
    /\ "USE_OPENAI_API_KEY" \in DOMAIN environ /\ environ["USE_OPENAI_API_KEY"] = "True"
    /\ Entered("_call_ollama_api")

----------------------------------------------------------------------------
(* C4 *)

\* C4: _call_openai_api called directly, with the transport failing at client
\* construction, at the request or at the extraction of the first choice, raises
\* GlueLLMException whose cause is that failure, and returns nothing.
C4_OpenAIWrapsTransportFailure ==
    (/\ call.fn = "_call_openai_api"
     /\ "messages" \in DOMAIN call.arg
     /\ call.ext \in {"client", "request", "extract"}) =>
        /\ ret.kind = "raise"
        /\ ret.exc = "GlueLLMException"
        /\ ret.cause = (CASE call.ext = "client"  -> "ClientError"
                          [] call.ext = "request" -> "TransportError"
                          [] call.ext = "extract" -> "IndexError")
        /\ ret.value # "Sorry, I am not able to understand your query. Please try again."

\* C4 witness: a response without a first choice surfaced as GlueLLMException
C4_Witness ==
    /\ call.fn = "_call_openai_api"
    /\ call.ext = "extract"
    /\ ret.kind = "raise"
    /\ ret.exc = "GlueLLMException"
    /\ ret.cause = "IndexError"
    /\ Len(sent) = 1

----------------------------------------------------------------------------
(* C9 *)

\* C9: one chat_completion enters exactly one caller, once, and issues at most one
\* completion request, also when it ends with the fallback sentence.
C9_OneCallerOneRequest ==
    call.fn = "chat_completion" =>
        /\ NumEntered = 1
        /\ Cardinality({c \in Callers : Entered(c)}) = 1
        /\ Len(sent) <= 1
        /\ Cardinality({i \in 1..Len(events) : events[i].ev = "request"}) = Len(sent)

\* C9 witness: the request failed and the fallback came back after that one request
C9_Witness ==
    /\ call.fn = "chat_completion"
    /\ call.ext = "request"
    /\ ret.value = "Sorry, I am not able to understand your query. Please try again."
    /\ NumEntered = 1
    /\ Len(sent) = 1

----------------------------------------------------------------------------
(* C10 *)

\* what C10 says of the Azure caller and of the requests of the other two
RawVersusNormalized ==
    /\ Entered("_call_azure_api") =>
          /\ ~Normalized
          /\ ret.exc # "ValueError:messages"
          /\ sent # <<>> => sent[1].messages = call.arg
    /\ (Entered("_call_openai_api") /\ sent # <<>>) =>
          /\ Normalized
          /\ sent[1].messages =
                [i \in 1..Len(NormalizedFor(call.arg)) |->
                    [role |-> RoleValue(NormalizedFor(call.arg)[i].role),
                     content |-> NormalizedFor(call.arg)[i].content]]
    /\ (Entered("_call_ollama_api") /\ sent # <<>>) =>
          /\ Normalized
          /\ sent[1].messages = NormalizedFor(call.arg)

\* the last call ended in the normalizer's validation error, before any request
ValidationErrorFirst ==
    /\ Normalized
    /\ sent = <<>>
    /\ call.fn # "chat_completion" => (ret.kind = "raise" /\ ret.exc = "ValueError:messages")

ChatFns == {"chat_completion", "env_based_chat_completion"} \cup Callers

\* C10 as claimed: the Azure caller sends the raw mapping and never runs the
\* normalizer, the OpenAI and Ollama callers send the normalizer's output, and a
\* mapping without "messages" gives the validation error before any request on the
\* OpenAI and Ollama paths (read with the callers' SDKs installed: a caller whose
\* SDK import raises is left aside).
C10_AsClaimed ==
    call.fn \in ChatFns =>
        /\ RawVersusNormalized
        /\ ((Entered("_call_openai_api") \/ Entered("_call_ollama_api"))
             /\ "messages" \notin DOMAIN call.arg /\ call.ext # "import")
                => ValidationErrorFirst

\* C10 amended: as claimed (SDKs installed), the validation error on the Ollama
\* path being the outcome when OLLAMA_TEMPERATURE is unset or numeric
\* (get_ollama_config runs before the normalizer and its parse error comes first).
C10_RawOnAzureNormalizedElsewhere ==
    call.fn \in ChatFns =>
        /\ RawVersusNormalized
        /\ (Entered("_call_openai_api") /\ "messages" \notin DOMAIN call.arg
              /\ call.ext # "import") => ValidationErrorFirst
        /\ (Entered("_call_ollama_api") /\ "messages" \notin DOMAIN call.arg
              /\ call.ext # "import" /\ TemperatureParses(environ)) => ValidationErrorFirst

\* C10 witness: the Ollama caller, temperature numeric, mapping without "messages":
\* the validation error and no request
C10_Witness ==
    /\ call.fn = "_call_ollama_api"
    /\ "OLLAMA_TEMPERATURE" \in DOMAIN environ
    /\ environ["OLLAMA_TEMPERATURE"] = s_05
    /\ "messages" \notin DOMAIN call.arg
    /\ Normalized
    /\ ret.kind = "raise"
    /\ ret.exc = "ValueError:messages"
    /\ sent = <<>>


----------------------------------------------------------------------------
(* What the claims about the pool builder speak of *)

\* the entries of cfg in the order the builder processes them: the Azure entries,
\* then the custom entries, each with its place <<"azure", i>> or <<"custom", i>>
Places(cfg) ==
    {<<"azure", i>> : i \in 1..Len(cfg.azure_open_ai.azure_oai_models)}
    \cup {<<"custom", i>> : i \in 1..Len(cfg.custom_models)}

EntryAt(cfg, p) ==
    IF p[1] = "azure" THEN cfg.azure_open_ai.azure_oai_models[p[2]]
    ELSE cfg.custom_models[p[2]]

\* p is processed before q
Before(cfg, p, q) ==
    \/ p[1] = "azure" /\ q[1] = "custom"
    \/ p[1] = q[1] /\ p[2] < q[2]

\* the place, among the places P, of the entry with id k that is processed last
LastWithId(cfg, P, k) ==
    CHOOSE p \in P :
        /\ EntryAt(cfg, p).unique_model_id = k
        /\ \A q \in P : EntryAt(cfg, q).unique_model_id = k => (q = p \/ Before(cfg, q, p))

\* the pool holds exactly the entries at the places P: one key per id among them,
\* bound to the handle built for the entry of that id processed last
PoolHolds(cfg, P) ==
    /\ DOMAIN llm_pool.handles = {EntryAt(cfg, p).unique_model_id : p \in P}
    /\ \A k \in DOMAIN llm_pool.handles :
          llm_pool.handles[k].src = LastWithId(cfg, P, k)

\* the places of the custom entries and of the Azure entries of a model type the
\* builder has a constructor for
ConstructedPlaces(cfg) ==
    {p \in Places(cfg) :
        \/ p[1] = "custom"
        \/ EntryAt(cfg, p).model_type \in {"chat", "completion", "embeddings", "multimodal"}}

\* the ids, in order, of the entries of models whose type is t
IdsOfType(models, t) ==
    LET Matches(m) == m.model_type = t
        sel == SelectSeq(models, Matches)
    IN  [i \in 1..Len(sel) |-> sel[i].unique_model_id]

----------------------------------------------------------------------------
(* C5 *)

\* C5: get_all_model_ids_of_type returns the ids of the Azure entries and of the
\* custom entries whose model_type is the requested one, in declaration order,
\* Azure entries first, whatever the number of custom entries.
C5_AsClaimed ==
    call.fn = "get_all_model_ids_of_type" =>
        /\ ret.kind = "return"
        /\ ret.value = IdsOfType(llm_config.azure_open_ai.azure_oai_models, call.arg)
                       \o IdsOfType(llm_config.custom_models, call.arg)

----------------------------------------------------------------------------
(* C6 *)

\* C6 as claimed: the pool get_llm_pool returns has one key for every id declared
\* by an Azure or custom entry, bound to the handle of the entry of that id
\* processed last.
C6_AsClaimed ==
    (call.fn = "get_llm_pool" /\ llm_pool.state = "built") =>
        PoolHolds(llm_config, Places(llm_config))

\* C6 amended: the pool get_llm_pool returns has one key for every id declared by
\* a custom entry or by an Azure entry whose model_type is chat, completion,
\* embeddings or multimodal, bound to the handle of the entry of that id, among
\* those, processed last; an Azure entry of any other model_type is not registered.
C6_PoolHoldsConstructedEntries ==
    (call.fn = "get_llm_pool" /\ llm_pool.state = "built") =>
        PoolHolds(llm_config, ConstructedPlaces(llm_config))

\* C6 witness: an Azure entry and a custom entry share an id, and the pool has that
\* one key, bound to the custom entry's handle
C6_Witness ==
    /\ call.fn = "get_llm_pool"
    /\ llm_pool.state = "built"
    /\ Len(llm_config.azure_open_ai.azure_oai_models) = 1
    /\ Len(llm_config.custom_models) = 1
    /\ llm_config.azure_open_ai.azure_oai_models[1].model_type = "embeddings"
    /\ llm_config.azure_open_ai.azure_oai_models[1].unique_model_id
          = llm_config.custom_models[1].unique_model_id
    /\ Cardinality(DOMAIN llm_pool.handles) = 1
    /\ \A k \in DOMAIN llm_pool.handles : llm_pool.handles[k].src = <<"custom", 1>>

----------------------------------------------------------------------------
(* C7 *)

\* C7: every handle of the built pool carries a token counter iff the entry it was
\* built for has track_tokens set, and get_tokens_used on a handle gives the four
\* counts as they stand, left as they are, iff that entry has track_tokens set,
\* None otherwise.
C7_AsClaimed ==
    llm_pool.state = "built" =>
        /\ \A k \in DOMAIN llm_pool.handles :
              llm_pool.handles[k].counting
                  <=> EntryAt(llm_config, llm_pool.handles[k].src).track_tokens
        /\ call.fn = "get_tokens_used" =>
              IF EntryAt(llm_config, llm_pool.handles[call.arg].src).track_tokens
              THEN /\ DOMAIN ret.value # {}
                   /\ ret.value.embedding_token_count = used[call.arg].total_embedding_token_count
                   /\ ret.value.prompt_llm_token_count = used[call.arg].prompt_llm_token_count
                   /\ ret.value.completion_llm_token_count = used[call.arg].completion_llm_token_count
                   /\ ret.value.total_llm_token_count = used[call.arg].total_llm_token_count
              ELSE DOMAIN ret.value = {}

====
